---- MODULE Spec2Model ----
(***************************************************************************)
(* Model of the recipe infra/recipes/jiri.py: PROPERTIES (the trigger      *)
(* properties and their defaults) and RunSteps (source resolution,         *)
(* validation, the sequence of external steps, target decomposition,       *)
(* build and test).                                                        *)
(*                                                                         *)
(* A Python str is a sequence of one-character strings; None is a          *)
(* distinguished value that is not a str.                                  *)
(***************************************************************************)
EXTENDS Integers, Sequences, FiniteSets, TLC

\* ------------------------------------------------------------------ bounds
MaxHostTail == 2
MaxRepoTail == 0
MaxTargetLen == 2

\* ------------------------------------------------------- values and strings
None == <<"<None>">>

IsStr(s) == s # None

\* Python truthiness of an optional str: None and '' are falsy.
Truthy(s) == s # None /\ s # <<>>

\* '%s' % x
Str(x) == IF x = None THEN <<"N", "o", "n", "e">> ELSE x

\* s.startswith(p)
StartsWith(s, p) == Len(s) >= Len(p) /\ SubSeq(s, 1, Len(p)) = p

\* s.rstrip(c)
RECURSIVE RStrip(_, _)
RStrip(s, c) ==
    IF s # <<>> /\ s[Len(s)] = c
    THEN RStrip(SubSeq(s, 1, Len(s) - 1), c)
    ELSE s

\* index of the first occurrence of c in s, 0 when there is none
RECURSIVE Find(_, _, _)
Find(s, c, i) ==
    IF i > Len(s) THEN 0
    ELSE IF s[i] = c THEN i
    ELSE Find(s, c, i + 1)

\* s.split(sep, maxsplit): at most maxsplit splits, so at most maxsplit + 1 parts
RECURSIVE Split(_, _, _)
Split(s, sep, maxsplit) ==
    LET i == Find(s, sep, 1)
    IN IF maxsplit = 0 \/ i = 0
       THEN <<s>>
       ELSE <<SubSeq(s, 1, i - 1)>> \o Split(SubSeq(s, i + 1, Len(s)), sep, maxsplit - 1)

Contains(s, c) == Find(s, c, 1) # 0

\* all sequences over alphabet A of length at most n
SeqsUpTo(A, n) == UNION {[1..k -> A] : k \in 0..n}

HTTPS == <<"h", "t", "t", "p", "s", ":", "/", "/">>
HTTP == <<"h", "t", "t", "p", ":", "/", "/">>
MASTER == <<"m", "a", "s", "t", "e", "r">>
CQ == <<"c", "q">>
SLASH == "/"
DASH == "-"

\* --------------------------------------------------------- input domains
Schemes == {HTTPS, HTTP}
Hosts == {None, <<>>} \cup {p \o t : p \in Schemes, t \in SeqsUpTo({"a", SLASH}, MaxHostTail)}
Repos == {None, <<>>} \cup {p \o t : p \in Schemes, t \in SeqsUpTo({"a", SLASH}, MaxRepoTail)}
Refspecs == {None, <<>>, <<"r">>}
Projects == {None, <<"j">>}
PatchRefs == {None, <<>>, <<"p">>}
Categories == {None, CQ, <<"c", "i">>}
Targets == SeqsUpTo({"a", DASH}, MaxTargetLen)
Manifests == {<<"j", "i", "r", "i">>}
Remotes == {HTTPS \o <<"m">>}
Hashes == {<<"abc123">>, <<"def456">>}
DateOutputs == {<<"2016-10-11 14:40:25-07:00", "\n">>}

VARIABLES
    props,        \* the trigger properties as supplied (None when absent)
    pc,           \* position in RunSteps
    repo_url,     \* local repo_url of RunSteps
    refspec,      \* local refspec of RunSteps
    jiri_config,  \* configuration set by api.jiri.set_config
    steps,        \* the external steps executed so far, in order
    git_commit,
    build_time,
    ldflags,
    goos,
    goarch,
    error         \* the exception that ended the invocation, or "none"

vars == <<props, pc, repo_url, refspec, jiri_config, steps, git_commit,
          build_time, ldflags, goos, goarch, error>>

\* ---------------------------------------------------------- PROPERTIES
\* The value RunSteps receives for a property: the supplied value, or the
\* declared default when the property is absent.  Properties are named by
\* their param_name.
PropertyDefault(name) == IF name = "refspec" THEN MASTER ELSE None

Param(name) == IF props[name] = None THEN PropertyDefault(name) ELSE props[name]

category == Param("category")
gerrit_host == Param("gerrit_host")
gerrit_project == Param("gerrit_project")
gerrit_patch_ref == Param("gerrit_patch_ref")
manifest == Param("manifest")
remote == Param("remote")
target == Param("target")

PropertySets ==
    [category : Categories,
     gerrit_host : Hosts,
     gerrit_project : Projects,
     gerrit_patch_ref : PatchRefs,
     repo_url : Repos,
     refspec : Refspecs,
     manifest : Manifests,
     remote : Remotes,
     target : Targets]

\* ------------------------------------------------------------ RunSteps
ConfigErrors == {"AssertionError", "AttributeError", "ValueError"}

\* the gerrit branch taken for every run that names a category
UseGerritForAnyCategory == category # None

\* line 42: the branch taken for a pending-change run
UseGerrit == category = CQ

\* the derived URL without stripping the host's trailing slashes
CqRepoUrlNoStrip(host, project) == Str(host) \o <<SLASH>> \o Str(project)

\* line 44: '%s/%s' % (gerrit_host.rstrip('/'), gerrit_project)
CqRepoUrl(host, project) == Str(RStrip(host, SLASH)) \o <<SLASH>> \o Str(project)

\* line 43: gerrit_host.startswith on None raises AttributeError, the
\* assert raises AssertionError
GerritError ==
    IF ~UseGerrit THEN "none"
    ELSE IF ~IsStr(gerrit_host) THEN "AttributeError"
    ELSE IF ~StartsWith(gerrit_host, HTTPS) THEN "AssertionError"
    ELSE "none"

\* a scheme check that accepts any http URL
SecureUrlAnyHttp(u) == StartsWith(u, <<"h", "t", "t", "p">>)

\* line 48
SecureUrl(u) == StartsWith(u, HTTPS)

\* lines 47-48
ValidationError(u, r) ==
    IF ~(Truthy(u) /\ Truthy(r)) THEN "AssertionError"
    ELSE IF ~SecureUrl(u) THEN "AssertionError"
    ELSE "none"

\* the patch step taken whenever a patch ref is present
PatchNeededByRef == gerrit_patch_ref # None

\* line 57
PatchNeeded == category = CQ

\* the toolchain installed before the patch is applied
SuccessorToolchainFirst(p) ==
    CASE p = "start" -> "ensure_jiri"
      [] p = "ensure_jiri" -> "set_config"
      [] p = "set_config" -> "init"
      [] p = "init" -> "clean_project"
      [] p = "clean_project" -> "import_manifest"
      [] p = "import_manifest" -> "update"
      [] p = "update" -> "install_go"
      [] p = "install_go" -> IF PatchNeeded THEN "patch" ELSE "get_hash"
      [] p = "patch" -> "get_hash"
      [] p = "get_hash" -> "date"
      [] p = "date" -> "decompose"
      [] p = "decompose" -> "go_build"
      [] p = "go_build" -> "go_test"
      [] p = "go_test" -> "done"

\* the statement that follows step p when p returns normally
Successor(p) ==
    CASE p = "start" -> "ensure_jiri"
      [] p = "ensure_jiri" -> "set_config"
      [] p = "set_config" -> "init"
      [] p = "init" -> "clean_project"
      [] p = "clean_project" -> "import_manifest"
      [] p = "import_manifest" -> "update"
      [] p = "update" -> IF PatchNeeded THEN "patch" ELSE "install_go"
      [] p = "patch" -> "install_go"
      [] p = "install_go" -> "get_hash"
      [] p = "get_hash" -> "date"
      [] p = "date" -> "decompose"
      [] p = "decompose" -> "go_build"
      [] p = "go_build" -> "go_test"
      [] p = "go_test" -> "done"

\* a failed step swallowed, the run going on with the next statement
OnStepFailureContinue(p) == Successor(p)

\* RunSteps has no try/except: an exception raised by a step leaves RunSteps
OnStepFailure(p) == "failed"

\* whether an external step returns normally or raises StepFailure
StepOutcomes == BOOLEAN

NoEnv == {}

StepRecord(name, args, env, ok) ==
    [name |-> name, args |-> args, env |-> env, ok |-> ok]

\* an external step at position p: it is recorded, then either returns or raises
RunStep(p, name, args, env) ==
    /\ pc = p
    /\ \E ok \in StepOutcomes :
          /\ steps' = Append(steps, StepRecord(name, args, env, ok))
          /\ pc' = IF ok THEN Successor(p) ELSE OnStepFailure(p)
          /\ error' = IF ok THEN error ELSE "StepFailure"

\* lines 62-63
GitDir == <<"[SLAVE_BUILD]", "go", "src", "fuchsia.googlesource.com", "jiri">>

\* line 72
GoPath == <<"[SLAVE_BUILD]", "go">>

Whitespace == {" ", "\n", "\t", "\r"}

\* s.strip()
RECURSIVE Strip(_)
Strip(s) ==
    IF s # <<>> /\ s[1] \in Whitespace THEN Strip(Tail(s))
    ELSE IF s # <<>> /\ s[Len(s)] \in Whitespace THEN Strip(SubSeq(s, 1, Len(s) - 1))
    ELSE s

\* line 71
Ldflags(commit, time) ==
    <<"-X \"fuchsia.googlesource.com/jiri/version.GitCommit=">> \o Str(commit)
        \o <<"\" -X \"fuchsia.googlesource.com/jiri/version.BuildTime=">> \o Str(time)
        \o <<"\"">>

\* line 73: target.split("-", 2)
TargetParts(t) == Split(t, DASH, 2)

\* the build run with the host's GOOS and GOARCH
BuildEnvHostOnly == {<<"GOPATH", GoPath>>}

\* line 75
BuildEnv == {<<"GOPATH", GoPath>>, <<"GOOS", goos>>, <<"GOARCH", goarch>>}

\* lines 76-77
BuildArgs == <<<<"build">>, <<"-ldflags">>, ldflags, <<"-a">>, <<"fuchsia.googlesource.com/jiri/cmd/jiri">>>>

\* line 79
TestEnv == {<<"GOPATH", GoPath>>}

\* line 80
TestArgs == <<<<"test">>, <<"fuchsia.googlesource.com/jiri/cmd/jiri">>>>

Init ==
    /\ props \in PropertySets
    /\ pc = "start"
    /\ repo_url = Param("repo_url")
    /\ refspec = Param("refspec")
    /\ jiri_config = None
    /\ steps = <<>>
    /\ git_commit = None
    /\ build_time = None
    /\ ldflags = None
    /\ goos = None
    /\ goarch = None
    /\ error = "none"

\* lines 42-48
Resolve ==
    /\ pc = "start"
    /\ IF GerritError # "none"
       THEN /\ error' = GerritError
            /\ pc' = "failed"
            /\ UNCHANGED <<repo_url, refspec>>
       ELSE LET u == IF UseGerrit THEN CqRepoUrl(gerrit_host, gerrit_project) ELSE repo_url
                r == IF UseGerrit THEN gerrit_patch_ref ELSE refspec
            IN /\ repo_url' = u
               /\ refspec' = r
               /\ error' = ValidationError(u, r)
               /\ pc' = IF ValidationError(u, r) = "none" THEN Successor("start") ELSE "failed"
    /\ UNCHANGED <<props, jiri_config, steps, git_commit, build_time, ldflags, goos, goarch>>

\* line 50
EnsureJiri ==
    /\ RunStep("ensure_jiri", "jiri.ensure_jiri", <<>>, NoEnv)
    /\ UNCHANGED <<props, repo_url, refspec, jiri_config, git_commit, build_time, ldflags, goos, goarch>>

\* line 51: configuration only, no step is run
SetConfig ==
    /\ pc = "set_config"
    /\ jiri_config' = <<"j", "i", "r", "i">>
    /\ pc' = Successor("set_config")
    /\ UNCHANGED <<props, repo_url, refspec, steps, git_commit, build_time, ldflags, goos, goarch, error>>

\* line 53
JiriInit ==
    /\ RunStep("init", "jiri.init", <<>>, NoEnv)
    /\ UNCHANGED <<props, repo_url, refspec, jiri_config, git_commit, build_time, ldflags, goos, goarch>>

\* line 54
CleanProject ==
    /\ RunStep("clean_project", "jiri.clean_project", <<>>, NoEnv)
    /\ UNCHANGED <<props, repo_url, refspec, jiri_config, git_commit, build_time, ldflags, goos, goarch>>

\* line 55
ImportManifest ==
    /\ RunStep("import_manifest", "jiri.import_manifest", <<manifest, remote>>, NoEnv)
    /\ UNCHANGED <<props, repo_url, refspec, jiri_config, git_commit, build_time, ldflags, goos, goarch>>

\* line 56
Update ==
    /\ RunStep("update", "jiri.update", <<>>, NoEnv)
    /\ UNCHANGED <<props, repo_url, refspec, jiri_config, git_commit, build_time, ldflags, goos, goarch>>

\* line 58
Patch ==
    /\ RunStep("patch", "jiri.patch", <<gerrit_patch_ref, gerrit_host>>, NoEnv)
    /\ UNCHANGED <<props, repo_url, refspec, jiri_config, git_commit, build_time, ldflags, goos, goarch>>

\* line 60
InstallGo ==
    /\ RunStep("install_go", "go.install_go", <<>>, NoEnv)
    /\ UNCHANGED <<props, repo_url, refspec, jiri_config, git_commit, build_time, ldflags, goos, goarch>>

\* lines 62-64: the hash of the checked-out working copy
GetHash ==
    /\ pc = "get_hash"
    /\ \E ok \in StepOutcomes, h \in Hashes :
          /\ steps' = Append(steps, StepRecord("git.get_hash", <<GitDir>>, NoEnv, ok))
          /\ pc' = IF ok THEN Successor("get_hash") ELSE OnStepFailure("get_hash")
          /\ error' = IF ok THEN error ELSE "StepFailure"
          /\ git_commit' = IF ok THEN h ELSE git_commit
    /\ UNCHANGED <<props, repo_url, refspec, jiri_config, build_time, ldflags, goos, goarch>>

\* lines 65-69: the date step and build_time = result.stdout.strip()
Date ==
    /\ pc = "date"
    /\ \E ok \in StepOutcomes, out \in DateOutputs :
          /\ steps' = Append(steps, StepRecord("date", <<<<"date">>, <<"--rfc-3339=seconds">>>>, NoEnv, ok))
          /\ pc' = IF ok THEN Successor("date") ELSE OnStepFailure("date")
          /\ error' = IF ok THEN error ELSE "StepFailure"
          /\ build_time' = IF ok THEN Strip(out) ELSE build_time
    /\ UNCHANGED <<props, repo_url, refspec, jiri_config, git_commit, ldflags, goos, goarch>>

\* lines 71-73: ldflags, gopath and goos, goarch = target.split("-", 2);
\* the unpacking raises ValueError unless there are exactly two parts
Decompose ==
    /\ pc = "decompose"
    /\ ldflags' = Ldflags(git_commit, build_time)
    /\ LET parts == TargetParts(target)
       IN IF Len(parts) = 2
          THEN /\ goos' = parts[1]
               /\ goarch' = parts[2]
               /\ pc' = Successor("decompose")
               /\ error' = error
          ELSE /\ error' = "ValueError"
               /\ pc' = "failed"
               /\ UNCHANGED <<goos, goarch>>
    /\ UNCHANGED <<props, repo_url, refspec, jiri_config, steps, git_commit, build_time>>

\* lines 75-77
GoBuild ==
    /\ RunStep("go_build", "go.build", BuildArgs, BuildEnv)
    /\ UNCHANGED <<props, repo_url, refspec, jiri_config, git_commit, build_time, ldflags, goos, goarch>>

\* lines 79-80
GoTest ==
    /\ RunStep("go_test", "go.test", TestArgs, TestEnv)
    /\ UNCHANGED <<props, repo_url, refspec, jiri_config, git_commit, build_time, ldflags, goos, goarch>>

Next ==
    \/ Resolve
    \/ EnsureJiri
    \/ SetConfig
    \/ JiriInit
    \/ CleanProject
    \/ ImportManifest
    \/ Update
    \/ Patch
    \/ InstallGo
    \/ GetHash
    \/ Date
    \/ Decompose
    \/ GoBuild
    \/ GoTest

Spec == Init /\ [][Next]_vars

\* ------------------------------------------------------------ properties
ResolveErrors == {"AssertionError", "AttributeError"}

\* Resolve has run
Resolved == pc # "start"

\* Resolve has run and the validation of lines 42-48 passed
ResolveSucceeded == Resolved /\ error \notin ResolveErrors

StepNames == {steps[i].name : i \in DOMAIN steps}

StepIndexes(name) == {i \in DOMAIN steps : steps[i].name = name}

\* gerritHost with trailing slashes stripped, "/" and gerritProject
DerivedUrl == RStrip(gerrit_host, SLASH) \o <<SLASH>> \o gerrit_project

DerivedAsClaimed ==
    /\ ResolveSucceeded
    /\ repo_url = DerivedUrl
    /\ refspec = gerrit_patch_ref

\* C1 as stated: in a cq run with a gerritHost starting with "https://" and
\* a present gerritProject and gerritPatchRef, resolution succeeds with the
\* derived URL and the patch ref.
C1_Original ==
    (/\ Resolved
     /\ category = CQ
     /\ IsStr(gerrit_host) /\ StartsWith(gerrit_host, HTTPS)
     /\ IsStr(gerrit_project)
     /\ IsStr(gerrit_patch_ref))
    => DerivedAsClaimed

\* C1 amended: in a cq run with a gerritHost that starts with "https://" and
\* still does once its trailing slashes are stripped, a present gerritProject
\* and a present, non-empty gerritPatchRef, resolution succeeds with
\* repositoryUrl = gerritHost.rstrip("/") + "/" + gerritProject and
\* refspec = gerritPatchRef; the supplied repositoryUrl and refspec are ignored.
C1_CqDerivesUrl ==
    (/\ Resolved
     /\ category = CQ
     /\ IsStr(gerrit_host) /\ StartsWith(RStrip(gerrit_host, SLASH), HTTPS)
     /\ IsStr(gerrit_project)
     /\ Truthy(gerrit_patch_ref))
    => DerivedAsClaimed

C1_Witness ==
    /\ ResolveSucceeded
    /\ category = CQ
    /\ gerrit_host[Len(gerrit_host)] = SLASH
    /\ repo_url = DerivedUrl
    /\ Truthy(props.repo_url) /\ props.repo_url # repo_url
    /\ Param("refspec") # refspec

\* C2: in a run whose category is not "cq", with a non-empty repositoryUrl
\* starting with "https://" and a non-empty refspec, resolution succeeds and
\* the resolved repositoryUrl and refspec are the supplied ones, whatever the
\* gerrit properties are.
C2_NonCqKeepsSupplied ==
    (/\ Resolved
     /\ category # CQ
     /\ Truthy(props.repo_url) /\ StartsWith(props.repo_url, HTTPS)
     /\ Truthy(Param("refspec")))
    => (/\ ResolveSucceeded
        /\ repo_url = props.repo_url
        /\ refspec = Param("refspec"))

C2_Witness ==
    /\ ResolveSucceeded
    /\ category # CQ /\ category # None
    /\ IsStr(gerrit_host) /\ IsStr(gerrit_project) /\ IsStr(gerrit_patch_ref)
    /\ repo_url = props.repo_url
    /\ refspec = props.refspec

ResolvedValid ==
    /\ Truthy(repo_url)
    /\ Truthy(refspec)
    /\ StartsWith(repo_url, HTTPS)

\* C3: in both branches, once the resolution has run, a resolved repositoryUrl
\* or refspec that is empty or absent, or a repositoryUrl that does not start
\* with "https://", has failed the invocation, and no external step has run
\* with such values.
C3_ValidationInBothBranches ==
    (Resolved /\ ~ResolvedValid)
    => (pc = "failed" /\ error \in ResolveErrors /\ steps = <<>>)

C3_Witness ==
    /\ category = CQ
    /\ IsStr(gerrit_host) /\ StartsWith(gerrit_host, HTTPS)
    /\ IsStr(gerrit_patch_ref)
    /\ Resolved
    /\ ~StartsWith(repo_url, HTTPS)
    /\ pc = "failed"

\* the decomposition of line 73 has run
Decomposed == pc \in {"go_build", "go_test", "done"} \/ error = "ValueError" \/ "go.build" \in StepNames

FirstDash == Find(target, DASH, 1)

\* C4 as stated: a target with at least one "-" is split on the first "-",
\* GOOS the text before it and GOARCH all the text after it, and the
\* invocation fails on the target if and only if the target has no "-".
C4_SplitOnFirstDash ==
    Decomposed =>
        /\ (error = "ValueError") <=> ~Contains(target, DASH)
        /\ Contains(target, DASH) =>
              /\ goos = SubSeq(target, 1, FirstDash - 1)
              /\ goarch = SubSeq(target, FirstDash + 1, Len(target))

\* C5 as stated: a run that ends in a configuration error has executed no
\* external step.
C5_ConfigErrorBeforeAnyStep ==
    error \in ConfigErrors => steps = <<>>

\* the order of the steps as the claim lists it: clean before init
ClaimedRank(name) ==
    CASE name = "jiri.ensure_jiri" -> 0
      [] name = "jiri.clean_project" -> 1
      [] name = "jiri.init" -> 2
      [] name = "jiri.import_manifest" -> 3
      [] name = "jiri.update" -> 4
      [] name = "jiri.patch" -> 5
      [] name = "go.install_go" -> 6
      [] name = "git.get_hash" -> 7
      [] name = "date" -> 8
      [] name = "go.build" -> 9
      [] name = "go.test" -> 10

\* the same order with init before clean
InitFirstRank(name) ==
    CASE name = "jiri.init" -> 1
      [] name = "jiri.clean_project" -> 2
      [] OTHER -> ClaimedRank(name)

\* C6 as stated: the steps run in the order clean, init, import, update,
\* optional patch, toolchain install, commit hash, timestamp, build, test.
C6_Original ==
    \A i, j \in DOMAIN steps :
        i < j => ClaimedRank(steps[i].name) < ClaimedRank(steps[j].name)

\* C6 amended: the steps run in the strict order init, then clean, then
\* manifest import and update, then the optional patch, then toolchain
\* install, then commit hash and timestamp, then build, then test; no step
\* runs before a step that precedes it in this order.
C6_StepOrder ==
    \A i, j \in DOMAIN steps :
        i < j => InitFirstRank(steps[i].name) < InitFirstRank(steps[j].name)

C6_Witness ==
    /\ pc = "done"
    /\ category = CQ
    /\ Len(steps) = 11
    /\ steps[2].name = "jiri.init"
    /\ steps[3].name = "jiri.clean_project"

\* C7: the patch step runs if and only if category == "cq": never in a
\* non-cq run, at most once, directly after the update step and directly
\* before the toolchain install, with gerritPatchRef and gerritHost; a cq run
\* that has reached the toolchain install has run it.
C7_PatchIffCq ==
    LET P == StepIndexes("jiri.patch")
    IN /\ category # CQ => P = {}
       /\ Cardinality(P) <= 1
       /\ \A i \in P :
             /\ i > 1 /\ steps[i - 1].name = "jiri.update"
             /\ steps[i].args = <<gerrit_patch_ref, gerrit_host>>
             /\ i < Len(steps) => steps[i + 1].name = "go.install_go"
       /\ (category = CQ /\ "go.install_go" \in StepNames) => P # {}

C7_Witness ==
    /\ category = CQ
    /\ pc = "done"
    /\ Cardinality(StepIndexes("jiri.patch")) = 1

EnvOf(i) == steps[i].env

HasArg(i, a) == \E k \in DOMAIN steps[i].args : steps[i].args[k] = a

\* the ldflags string for the captured commit hash and build timestamp
ExpectedLdflags ==
    <<"-X \"fuchsia.googlesource.com/jiri/version.GitCommit=">> \o git_commit
        \o <<"\" -X \"fuchsia.googlesource.com/jiri/version.BuildTime=">> \o build_time
        \o <<"\"">>

CrossEnv(i) ==
    /\ \E v \in {GoPath} : <<"GOPATH", v>> \in EnvOf(i)
    /\ <<"GOOS", SubSeq(target, 1, FirstDash - 1)>> \in EnvOf(i)
    /\ <<"GOARCH", SubSeq(target, FirstDash + 1, Len(target))>> \in EnvOf(i)
    /\ HasArg(i, ExpectedLdflags)

\* C8 as stated: both the build step and the test step run with GOPATH, GOOS
\* and GOARCH in the environment and with the ldflags string.
C8_Original ==
    \A i \in DOMAIN steps :
        steps[i].name \in {"go.build", "go.test"} => CrossEnv(i)

\* C8 amended: the build step runs with an environment containing GOPATH,
\* GOOS and GOARCH, GOOS and GOARCH being the two components of the target,
\* and with the ldflags string built from the captured commit hash and
\* timestamp; the test step runs with GOPATH only and without ldflags.
C8_BuildEnvAndLdflags ==
    \A i \in DOMAIN steps :
        /\ steps[i].name = "go.build" => CrossEnv(i)
        /\ steps[i].name = "go.test" =>
              /\ {e[1] : e \in EnvOf(i)} = {"GOPATH"}
              /\ ~HasArg(i, ExpectedLdflags)

C8_Witness ==
    /\ "go.build" \in StepNames
    /\ "go.test" \in StepNames
    /\ Len(goos) > 0

\* C9 as stated: a cq run in which gerritHost, gerritProject or
\* gerritPatchRef is absent fails with a configuration error and resolves no
\* repositoryUrl or refspec.
C9_NoSubstitutionInCq ==
    (/\ Resolved
     /\ category = CQ
     /\ (gerrit_host = None \/ gerrit_project = None \/ gerrit_patch_ref = None))
    => (pc = "failed" /\ error \in ResolveErrors /\ steps = <<>>)

\* C10: steps fail fast and are never retried: every step runs at most once,
\* only the last executed step can have failed, a failed step ends the
\* invocation, and the test step runs only after a successful build step.
C10_FailFastNoRetry ==
    /\ \A i, j \in DOMAIN steps : steps[i].name = steps[j].name => i = j
    /\ \A i \in DOMAIN steps : ~steps[i].ok => (i = Len(steps) /\ pc = "failed")
    /\ \A i \in StepIndexes("go.test") :
          \E j \in StepIndexes("go.build") : j < i /\ steps[j].ok

\* once a step has failed, nothing more is executed
C10_Witness ==
    /\ pc = "failed"
    /\ error = "StepFailure"
    /\ \E i \in StepIndexes("go.build") : ~steps[i].ok

====
